---- MODULE Spec2Model ----
(***************************************************************************)
(* harmonic_reduce (src/harmonic_reduce.py): one call of the function as a *)
(* state machine.  The CP-SAT solver is modelled by what Solve() promises: *)
(* with no time limit it reports INFEASIBLE when the constraints have no   *)
(* assignment and otherwise leaves ANY assignment of minimal objective in  *)
(* its response; which one is the solver's choice.                         *)
(*                                                                         *)
(* A ratio (a Fraction) is the pair <<numerator, denominator>> in lowest   *)
(* terms.  TLC's integers are 32 bit, so the two magnitudes of the source, *)
(* M = 10^12 (line 87) and the objective weight 10^6 (line 114), are       *)
(* scaled down together, keeping weight^2 = M: M = 2^10, Weight = 2^5.     *)
(***************************************************************************)
EXTENDS Integers, Sequences, FiniteSets

VARIABLES
    scale,          \* argument: the sequence of ratios
    max_changes,    \* argument
    max_harmonic,   \* argument
    pc,             \* position in harmonic_reduce, or the exception that ended it
    model,          \* the CpModel: its variable families and its objective
    statuses,       \* what each solver.Solve call returned (the code discards it)
    value_raises,   \* whether solver.Value raises on a response with no solution
    response,       \* the solver's last response: status and variable values
    base_sol,       \* line 102
    violation,      \* the value line 118 read
    warned,         \* whether the warning of lines 119-121 was printed
    sol,            \* line 123
    df              \* the returned table: one row per position

vars == <<scale, max_changes, max_harmonic, pc, model, statuses,
          value_raises, response,
          base_sol, violation, warned, sol, df>>

----------------------------------------------------------------------------
(* Bounds of the model *)

\* stands for M = 10**12 of line 87 (scaled, see the header)
M == 1024
\* stands for the weight 10**6 of line 114 (scaled, see the header)
Weight == 32
\* most distinct ratios in a scale drawn from RatioPool
MaxLen == 3
\* base harmonics the solver's search looks at in one step
Block == 32

----------------------------------------------------------------------------
(* Fractions *)

Num(s) == s[1]
Den(s) == s[2]
Octave == <<2, 1>>

Abs(i) == IF i < 0 THEN -i ELSE i

RECURSIVE GCD(_, _)
GCD(a, b) == IF b = 0 THEN a ELSE GCD(b, a % b)

LCM(a, b) == (a * b) \div GCD(a, b)

\* Fraction(a, b) for a >= 0, b > 0: the pair in lowest terms
Fraction(a, b) == <<a \div GCD(a, b), b \div GCD(a, b)>>

Min(S) == CHOOSE v \in S : \A w \in S : v <= w

RECURSIVE Sum(_, _)
Sum(f, S) == IF S = {} THEN 0
             ELSE LET s == CHOOSE t \in S : TRUE IN f[s] + Sum(f, S \ {s})

\* the keys of the dictionaries built over the scale (duplicates collapse)
Keys(sc) == {sc[i] : i \in DOMAIN sc}

----------------------------------------------------------------------------
(* The constraints and objectives the code hands to the solver *)

\* a mutant of Dev: the factor 2 of the octave left out
DevNoTwo(s, xs, c) == xs * Den(s) - c * Num(s)

\* line 93: the deviation u[s] of harmonic xs against base harmonic c = x[2]
Dev(s, xs, c) == 2 * xs * Den(s) - c * Num(s)

\* the harmonic nearest to exact alignment from below, before clamping to 1..M
FloorX(s, c) == (c * Num(s)) \div (2 * Den(s))

\* lines 89: the domain 1..M of x[s]
Clamp(v) == IF v < 1 THEN 1 ELSE IF v > M THEN M ELSE v

LoX(s, c) == Clamp(FloorX(s, c))
HiX(s, c) == Clamp(FloorX(s, c) + 1)

Min2(a, b) == IF a <= b THEN a ELSE b

\* lines 89-90, 93, 105, 109: the least |u[s]| an x[s] in 1..M reaches at base
\* harmonic c, or M + 1 when every x[s] puts u[s] outside -M..M.  |Dev| is
\* convex in xs with its zero between FloorX and FloorX + 1, so the least
\* value over 1..M is taken at one of the two, clamped.
MinDev(s, c) ==
    Min2(Min2(Abs(Dev(s, LoX(s, c), c)), Abs(Dev(s, HiX(s, c), c))), M + 1)

\* the values of x[s] reaching it
NearestX(s, c) ==
    {v \in {LoX(s, c), HiX(s, c)} : Abs(Dev(s, v, c)) = MinDev(s, c)}

\* lines 93, 95: every u[s] = 0 at base harmonic c, all x within 1..M
ExactAt(keys, c) == \A s \in keys : MinDev(s, c) = 0

\* the x variables at an exact base harmonic
ExactX(keys, c) == [s \in keys |-> FloorX(s, c)]

RECURSIVE FirstExact(_, _)
\* the least base harmonic in lo..M of an assignment satisfying the first
\* model (lines 89-95), or 0 when there is none; searched a block at a time
FirstExact(keys, lo) ==
    IF lo > M THEN 0
    ELSE IF \E c \in lo..Min2(lo + Block - 1, M) : ExactAt(keys, c)
         THEN Min({c \in lo..Min2(lo + Block - 1, M) : ExactAt(keys, c)})
         ELSE FirstExact(keys, lo + Block)

\* a mutant of BaselineBase: a solution of the constraints whose base harmonic
\* is twice the least one, where that fits
BaselineBaseTwice(keys) ==
    IF ExactAt(keys, 2 * FirstExact(keys, 1)) THEN 2 * FirstExact(keys, 1)
    ELSE FirstExact(keys, 1)

\* line 97: model.Minimize(x[2]); 0 when the model is infeasible
BaselineBase(keys) == FirstExact(keys, 1)

NoResponse == [status |-> "NONE"]
Infeasible == [status |-> "INFEASIBLE"]

\* lines 99-100: the responses the first solve may leave
Solve1(keys) ==
    IF BaselineBase(keys) = 0 THEN {Infeasible}
    ELSE {[status |-> "OPTIMAL", x |-> ExactX(keys, BaselineBase(keys))]}

\* lines 112-113: the least violation the base harmonic c allows
ViolationAt(H, c) == IF c > H THEN c - H ELSE 0

\* mutants of WithinBudget: the comparison the wrong way round, strict, and
\* off by one
WithinBudgetFlipped(n, k) == n >= k
WithinBudgetStrict(n, k) == n < k
WithinBudgetLoose(n, k) == n <= k + 1

\* line 111: sum(b.values()) <= max_changes, n the number of flags set
WithinBudget(n, k) == n <= k

\* lines 93, 105-113: some assignment with x[2] = c satisfies the second model:
\* every u[s] within -M..M, the ratios that cannot have u[s] = 0 flagged and
\* within the budget, the violation within 0..M
Feasible2At(keys, k, H, c) ==
    /\ \A s \in keys : MinDev(s, c) <= M
    /\ WithinBudget(Cardinality({s \in keys : MinDev(s, c) # 0}), k)
    /\ ViolationAt(H, c) <= M

\* line 114: 10**6 * violation + sum(abs_u.values())
Objective2(keys, x, v) ==
    Weight * v + Sum([s \in keys |-> Abs(Dev(s, x[s], x[Octave]))], keys)

\* larger than every objective value
NoCost == (Weight + 64) * M

\* the least objective value of the assignments with x[2] = c
CostAt(keys, k, H, c) ==
    IF Feasible2At(keys, k, H, c)
    THEN Objective2(keys, [s \in keys |-> LoX(s, c)], ViolationAt(H, c))
         - Sum([s \in keys |-> Abs(Dev(s, LoX(s, c), c))], keys)
         + Sum([s \in keys |-> MinDev(s, c)], keys)
    ELSE NoCost

RECURSIVE MinCost(_, _, _, _, _)
\* the least objective value over base harmonics lo..hi
MinCost(keys, k, H, lo, hi) ==
    IF lo = hi THEN CostAt(keys, k, H, lo)
    ELSE Min2(MinCost(keys, k, H, lo, (lo + hi) \div 2),
              MinCost(keys, k, H, (lo + hi) \div 2 + 1, hi))

RECURSIVE SearchFrom(_, _, _, _, _)
\* the least objective value over base harmonics 1..M, best being the least
\* over 1..lo-1: searched a block at a time, and ended once the violation
\* alone costs more than best from lo on (the objective is at least
\* Weight * violation, which grows with the base harmonic)
SearchFrom(keys, k, H, lo, best) ==
    IF lo > M \/ best < Weight * ViolationAt(H, lo) THEN best
    ELSE SearchFrom(keys, k, H, lo + Block,
                    Min2(best, MinCost(keys, k, H, lo, Min2(lo + Block - 1, M))))

\* line 116: the optimal objective value, NoCost when the model is infeasible
OptimalCost(keys, k, H) == SearchFrom(keys, k, H, 1, NoCost)

\* the base harmonics of the optimal assignments whose objective value is
\* best: none of them has Weight * violation above best
BasesAt(keys, k, H, best) ==
    IF best = NoCost THEN {}
    ELSE {c \in 1..Min2(M, (IF H < 0 THEN 0 ELSE H) + best \div Weight) :
             CostAt(keys, k, H, c) = best}

OptimalBases(keys, k, H) == BasesAt(keys, k, H, OptimalCost(keys, k, H))

\* the optimal x at base harmonic c: each x[s] any nearest harmonic
OptimalX(keys, c) ==
    {x \in {[s \in keys |-> IF s \in T THEN HiX(s, c) ELSE LoX(s, c)] :
                T \in SUBSET keys} :
        \A s \in keys : x[s] \in NearestX(s, c)}

\* lines 104, 108, 111: the flag sets b an assignment x admits
FlagSets(keys, k, x) ==
    {B \in SUBSET keys :
        /\ \A s \in keys : Dev(s, x[s], x[Octave]) # 0 => s \in B
        /\ WithinBudget(Cardinality(B), k)}

\* the responses of an optimal solve whose optimal base harmonics are bases
Responses(keys, k, H, bases) ==
    IF bases = {} THEN {Infeasible}
    ELSE UNION {UNION {{[status |-> "OPTIMAL", x |-> x, b |-> B,
                         violation |-> ViolationAt(H, c)] :
                           B \in FlagSets(keys, k, x)} :
                       x \in OptimalX(keys, c)} :
                c \in bases}

\* line 116: the responses the second solve may leave
Solve2(keys, k, H) == Responses(keys, k, H, OptimalBases(keys, k, H))

----------------------------------------------------------------------------
(* Inputs *)

RatioPool == {<<3, 2>>, <<9, 8>>, <<41, 40>>, <<515, 513>>, Octave}

\* the scale of the doctest, lines 51-64
Doctest == << <<16, 15>>, <<9, 8>>, <<6, 5>>, <<5, 4>>, <<4, 3>>, <<45, 32>>,
              <<3, 2>>, <<8, 5>>, <<5, 3>>, <<9, 5>>, <<15, 8>>, <<2, 1>> >>

\* r < s as rationals
Less(r, s) == Num(r) * Den(s) < Num(s) * Den(r)

RECURSIVE Ascending(_)
\* the ratios of S in ascending order
Ascending(S) ==
    IF S = {} THEN <<>>
    ELSE LET lo == CHOOSE r \in S : \A s \in S \ {r} : Less(r, s)
         IN  <<lo>> \o Ascending(S \ {lo})

Reverse(sq) == [i \in 1..Len(sq) |-> sq[Len(sq) + 1 - i]]

\* up to MaxLen ratios of the pool: ascending, descending, and with the
\* first ratio given twice
PoolScales ==
    LET sets == {S \in SUBSET RatioPool : Cardinality(S) \in 1..MaxLen}
    IN  UNION {{Ascending(S), Reverse(Ascending(S)),
                Ascending(S) \o <<Ascending(S)[1]>>} : S \in sets}

Changes == {0, 1, 2}

Harmonics == {0, 1, 8}

\* the arguments of a call: <<scale, max_changes, max_harmonic>>
Calls == (PoolScales \X Changes \X Harmonics) \cup {<<Doctest, 3, 200>>}

----------------------------------------------------------------------------
(* harmonic_reduce *)

Init ==
    /\ \E call \in Calls : /\ scale = call[1]
                           /\ max_changes = call[2]
                           /\ max_harmonic = call[3]
    /\ value_raises = "unknown"
    /\ pc = "assert"
    /\ model = [vars |-> {}, objective |-> "none"]
    /\ statuses = <<>>
    /\ response = NoResponse
    /\ base_sol = <<>>
    /\ violation = 0
    /\ warned = FALSE
    /\ sol = <<>>
    /\ df = <<>>

\* a mutant of HasOctave: only the last ratio looked at
HasOctaveLast(sc) == sc[Len(sc)] = Octave

\* line 83: 2 in scale
HasOctave(sc) == \E i \in DOMAIN sc : sc[i] = Octave

\* line 83: assert 2 in scale
AssertOctave ==
    /\ pc = "assert"
    /\ pc' = IF HasOctave(scale) THEN "build" ELSE "AssertionError"
    /\ UNCHANGED <<scale, max_changes, max_harmonic, model, statuses,
                   value_raises, response, base_sol, violation, warned, sol, df>>

\* lines 85-97: the first model
BuildModel ==
    /\ pc = "build"
    /\ model' = [vars |-> {"x", "u"}, objective |-> "x[2]"]
    /\ pc' = "solve1"
    /\ UNCHANGED <<scale, max_changes, max_harmonic, statuses,
                   value_raises, response, base_sol, violation, warned, sol, df>>

\* lines 99-100: solver.Solve(model), its return value dropped
SolveBaseline ==
    /\ pc = "solve1"
    /\ response' \in Solve1(Keys(scale))
    /\ statuses' = Append(statuses, response'.status)
    /\ pc' = "read_base"
    /\ UNCHANGED <<scale, max_changes, max_harmonic, model,
                   value_raises, base_sol, violation, warned, sol, df>>

\* what solver.Value may return for a variable when the response holds no
\* solution and the call does not raise
Unspecified == {0, 1}

\* solver.Value on a response with no solution: the code never looks at the
\* status, and what Value then does is the installed ortools release's, the
\* same at every call: it raises, or it evaluates the variable against the
\* empty solution and returns an unspecified number
ValueBehaviour(known) == IF known = "unknown" THEN {"raises", "returns"}
                         ELSE {known}

\* line 102: base_sol = {s: solver.Value(x[s]) for s in scale}
ReadBase ==
    /\ pc = "read_base"
    /\ \/ /\ response.status = "OPTIMAL"
          /\ base_sol' = response.x
          /\ pc' = "extend"
          /\ value_raises' = value_raises
       \/ /\ response.status = "INFEASIBLE"
          /\ value_raises' = "raises"
          /\ value_raises' \in ValueBehaviour(value_raises)
          /\ base_sol' = base_sol
          /\ pc' = "IndexError"
       \/ /\ response.status = "INFEASIBLE"
          /\ value_raises' = "returns"
          /\ value_raises' \in ValueBehaviour(value_raises)
          /\ \E g \in Unspecified : base_sol' = [s \in Keys(scale) |-> g]
          /\ pc' = "extend"
    /\ UNCHANGED <<scale, max_changes, max_harmonic, model, statuses,
                   response, violation, warned, sol, df>>

\* lines 104-114: the flags, the budget, the violation and the new objective
ExtendModel ==
    /\ pc = "extend"
    /\ model' = [vars |-> model.vars \cup {"b", "abs_u", "violation"},
                 objective |-> "10**6 * violation + sum(abs_u)"]
    /\ pc' = "solve2"
    /\ UNCHANGED <<scale, max_changes, max_harmonic, statuses,
                   value_raises, response, base_sol, violation, warned, sol, df>>

\* line 116: solver.Solve(model), its return value dropped
SolveReduction ==
    /\ pc = "solve2"
    /\ response' \in Solve2(Keys(scale), max_changes, max_harmonic)
    /\ statuses' = Append(statuses, response'.status)
    /\ pc' = "check"
    /\ UNCHANGED <<scale, max_changes, max_harmonic, model,
                   value_raises, base_sol, violation, warned, sol, df>>

\* lines 118-121: the violation read, the warning printed when it is not 0
CheckViolation ==
    /\ pc = "check"
    /\ \/ /\ response.status = "OPTIMAL"
          /\ violation' = response.violation
          /\ pc' = "read_sol"
          /\ value_raises' = value_raises
       \/ /\ response.status = "INFEASIBLE"
          /\ value_raises' = "raises"
          /\ value_raises' \in ValueBehaviour(value_raises)
          /\ violation' = violation
          /\ pc' = "IndexError"
       \/ /\ response.status = "INFEASIBLE"
          /\ value_raises' = "returns"
          /\ value_raises' \in ValueBehaviour(value_raises)
          /\ violation' \in Unspecified
          /\ pc' = "read_sol"
    /\ warned' = (pc' = "read_sol" /\ violation' # 0)
    /\ UNCHANGED <<scale, max_changes, max_harmonic, model, statuses,
                   response, base_sol, sol, df>>

\* line 123: sol = {s: solver.Value(x[s]) for s in scale}; a call that gets
\* here with no solution has a Value that returns
ReadSol ==
    /\ pc = "read_sol"
    /\ \/ /\ response.status = "OPTIMAL"
          /\ sol' = response.x
       \/ /\ response.status = "INFEASIBLE"
          /\ \E g \in Unspecified : sol' = [s \in Keys(scale) |-> g]
    /\ pc' = "frame"
    /\ UNCHANGED <<scale, max_changes, max_harmonic, model, statuses,
                   value_raises, response, base_sol, violation, warned, df>>

\* lines 125-130: the rows of the table (the cent columns, lines 131-138, are
\* floating point presentation and left out)
Rows == [i \in DOMAIN scale |->
            [ratio        |-> scale[i],
             harmonic     |-> base_sol[scale[i]],
             new_ratio    |-> Fraction(2 * sol[scale[i]], sol[Octave]),
             new_harmonic |-> sol[scale[i]]]]

\* lines 125-140: Fraction raises on a zero denominator; DataFrame raises when
\* its columns differ in length (the dictionaries hold one entry per distinct
\* ratio, the ratio column one per position)
BuildFrame ==
    /\ pc = "frame"
    /\ \/ /\ sol[Octave] = 0
          /\ pc' = "ZeroDivisionError"
          /\ df' = df
       \/ /\ sol[Octave] # 0
          /\ Len(scale) # Cardinality(Keys(scale))
          /\ pc' = "ValueError"
          /\ df' = df
       \/ /\ sol[Octave] # 0
          /\ Len(scale) = Cardinality(Keys(scale))
          /\ df' = Rows
          /\ pc' = "returned"
    /\ UNCHANGED <<scale, max_changes, max_harmonic, model, statuses,
                   value_raises, response, base_sol, violation, warned, sol>>

Next ==
    \/ AssertOctave
    \/ BuildModel
    \/ SolveBaseline
    \/ ReadBase
    \/ ExtendModel
    \/ SolveReduction
    \/ CheckViolation
    \/ ReadSol
    \/ BuildFrame

Spec == Init /\ [][Next]_vars

----------------------------------------------------------------------------
(* Claims *)

Distinct(sc) == Len(sc) = Cardinality(Keys(sc))

\* a valid scale: distinct positive ratios, 2 among them
ValidScale == Octave \in Keys(scale) /\ Distinct(scale)

\* a valid call: a valid scale, max_changes >= 0, max_harmonic >= 1
ValidCall == ValidScale /\ max_changes >= 0 /\ max_harmonic >= 1

\* base harmonics at which ratio s alone is exact are the multiples of this
Step(s) == (2 * Den(s)) \div GCD(Num(s), 2 * Den(s))

RECURSIVE LcmBase(_)
\* the base harmonic by exact LCM arithmetic
LcmBase(keys) ==
    IF keys = {} THEN 1
    ELSE LET s == CHOOSE r \in keys : TRUE
         IN  LCM(Step(s), LcmBase(keys \ {s}))

\* the required harmonics fit in 1..M
Fits(keys) ==
    /\ LcmBase(keys) <= M
    /\ \A s \in keys : (LcmBase(keys) * Num(s)) \div (2 * Den(s)) \in 1..M

\* line 102 has run and left values in base_sol
BaseRead == DOMAIN base_sol # {}

Changed == {i \in DOMAIN df : df[i].new_ratio # df[i].ratio}

C2_TargetMetWhenReachable ==
    (ValidCall /\ pc = "read_sol" /\ response.status = "OPTIMAL") =>
        LET keys == Keys(scale)
            x2   == response.x[Octave]
        IN  IF \E c \in 1..Min2(M, max_harmonic) :
                   Feasible2At(keys, max_changes, max_harmonic, c)
            THEN violation = 0 /\ x2 <= max_harmonic /\ ~warned
            ELSE /\ \A c \in 1..(x2 - 1) :
                        ~Feasible2At(keys, max_changes, max_harmonic, c)
                 /\ violation = x2 - max_harmonic
                 /\ violation > 0
                 /\ warned

\* line 118 has run and read a violation
ViolationRead ==
    pc \in {"read_sol", "frame", "returned", "ZeroDivisionError", "ValueError"}

C4_BaselineRoundTrip ==
    (ValidScale /\ Len(statuses) >= 1) =>
        /\ statuses[1] = "OPTIMAL"
        /\ BaseRead => \A s \in Keys(scale) :
                           Fraction(base_sol[s], base_sol[Octave]) = s

\* C4 as amended: for every valid scale the first solve succeeds exactly
\* when the required harmonics fit in 1..M, and then
\* 2 * harmonic[ratio] / harmonic[octave] in lowest terms is the ratio.
C4_BaselineRoundTripDoubled ==
    (ValidScale /\ Len(statuses) >= 1) =>
        /\ statuses[1] = "OPTIMAL" <=> Fits(Keys(scale))
        /\ (BaseRead /\ Fits(Keys(scale))) =>
               \A s \in Keys(scale) :
                   Fraction(2 * base_sol[s], base_sol[Octave]) = s

C4_Witness ==
    /\ ValidScale /\ pc = "extend" /\ statuses[1] = "OPTIMAL"
    /\ Cardinality(Keys(scale)) = 3
    /\ base_sol[Octave] > 4

\* C5: for every valid scale whose required harmonics fit in 1..M, the base
\* harmonic of the first solve is the least positive B with B * numerator
\* divisible by 2 * denominator for every ratio, every baseline harmonic is
\* B * numerator / (2 * denominator), and B is the base harmonic found by
\* exact LCM arithmetic.
C5_BaselineIsLcm ==
    (ValidScale /\ Fits(Keys(scale)) /\ Len(statuses) >= 1 /\ BaseRead) =>
        LET keys == Keys(scale)
            B    == base_sol[Octave]
        IN  /\ statuses[1] = "OPTIMAL"
            /\ B >= 1
            /\ \A s \in keys : /\ (B * Num(s)) % (2 * Den(s)) = 0
                               /\ base_sol[s] = (B * Num(s)) \div (2 * Den(s))
            /\ \A c \in 1..(B - 1) :
                   \E s \in keys : (c * Num(s)) % (2 * Den(s)) # 0
            /\ B = LcmBase(keys)

C5_Witness ==
    /\ ValidScale /\ pc = "extend" /\ BaseRead
    /\ Cardinality(Keys(scale)) = 3
    /\ base_sol[Octave] = 80

DoctestCall == scale = Doctest /\ max_changes = 3 /\ max_harmonic = 200

\* the 'harmonic' column of the doctest, lines 67-78
DoctestHarmonics ==
    <<512, 540, 576, 600, 640, 675, 720, 768, 800, 864, 900, 960>>

\* what the doctest call returns apart from the new values of 9/8 and 15/8
DoctestCommon ==
    /\ \A i \in 1..12 : df[i].harmonic = DoctestHarmonics[i]
    /\ df[12].new_harmonic = 120
    /\ violation = 0 /\ ~warned
    /\ Changed = {2, 6, 11}
    /\ df[6].new_ratio = <<7, 5>>

NoSolverUse == model.vars = {} /\ statuses = <<>>

\* C7 as stated: a call whose scale lacks 2 or repeats a ratio, or whose
\* max_changes or max_harmonic is not positive, fails before any variable or
\* constraint is created and before any solve.
C7_InvalidCallFailsFast ==
    ~(ValidScale /\ max_changes > 0 /\ max_harmonic > 0) =>
        (pc \in {"assert", "AssertionError"} /\ NoSolverUse)

\* C7 as amended: a call whose scale lacks 2 fails with an AssertionError
\* before any variable or constraint is created and before any solve; no
\* other call fails that way.
C7_MissingOctaveFailsFast ==
    /\ Octave \notin Keys(scale) =>
           (pc \in {"assert", "AssertionError"} /\ NoSolverUse)
    /\ Octave \in Keys(scale) => pc # "AssertionError"

C7_Witness ==
    pc = "AssertionError" /\ Octave \notin Keys(scale) /\ NoSolverUse

\* C8 as stated: with max_changes = 0, every new_ratio is the ratio and every
\* reduced harmonic is the baseline harmonic.
C8_ZeroBudgetIsBaseline ==
    (ValidCall /\ Fits(Keys(scale)) /\ max_changes = 0 /\ pc = "returned") =>
        \A i \in DOMAIN df : /\ df[i].new_ratio = df[i].ratio
                             /\ df[i].new_harmonic = df[i].harmonic

\* C8 as amended: with max_changes = 0 and a valid scale whose required
\* harmonics fit in 1..M, every new_ratio is the ratio and the reduced
\* harmonics are the baseline harmonics times one integer m >= 1, with
\* m = 1 unless m times the baseline base harmonic is <= max_harmonic.
C8_ZeroBudgetIsMultiple ==
    (ValidCall /\ Fits(Keys(scale)) /\ max_changes = 0 /\ pc = "returned") =>
        LET m == sol[Octave] \div base_sol[Octave]
        IN  /\ m >= 1
            /\ m > 1 => m * base_sol[Octave] <= max_harmonic
            /\ \A i \in DOMAIN df :
                   /\ df[i].new_ratio = df[i].ratio
                   /\ df[i].new_harmonic = m * df[i].harmonic

C8_Witness ==
    /\ ValidCall /\ max_changes = 0 /\ pc = "returned"
    /\ Len(scale) >= 2
    /\ sol[Octave] = 2 * base_sol[Octave]

\* C9 as stated: the base harmonic returned with budget max_changes is at
\* most the base harmonic of every optimal solution of every smaller or
\* equal budget.
C9_BaseMonotone ==
    (ValidCall /\ Fits(Keys(scale)) /\ pc = "returned") =>
        \A k1 \in 0..max_changes :
            \A c1 \in OptimalBases(Keys(scale), k1, max_harmonic) :
                sol[Octave] <= c1

\* C9 as amended: for a valid scale whose required harmonics fit in 1..M,
\* the objective value 10^6 * violation + sum |u| returned with budget
\* max_changes is at most the optimal objective value of every smaller or
\* equal budget.
C9_ObjectiveMonotone ==
    (ValidCall /\ Fits(Keys(scale)) /\ pc = "returned") =>
        \A k1 \in 0..max_changes :
            Objective2(Keys(scale), sol, violation)
                <= OptimalCost(Keys(scale), k1, max_harmonic)

C9_Witness ==
    /\ ValidCall /\ pc = "returned" /\ max_changes = 2
    /\ sol[Octave] = 7
    /\ OptimalBases(Keys(scale), 1, max_harmonic) = {4}

====
